---- MODULE Spec2Model ----
(***************************************************************************)
(* A model of the cross-linked sparse matrix of src/matrix.py.             *)
(*                                                                         *)
(* A Matrix is a record [nrows, ncols, prow, pcol, heap].  heap maps the   *)
(* address of every Node object of the matrix to the record                *)
(* [row, col, el, right, down]; a reference to a Node is its address and   *)
(* None is 0.  prow and pcol are the head arrays, indexed from 0 as in the *)
(* source.  Floats are modelled by integers (the values used are small *)
(* integers, which floats represent exactly).                              *)
(*                                                                         *)
(* Every operator that can raise returns a record with an err field:       *)
(* "ok", or the name of the Python exception that ended the call.  A       *)
(* mutator that raises half way returns the matrix as the exception left   *)
(* it.                                                                     *)
(***************************************************************************)
EXTENDS Integers, Sequences, FiniteSets

VARIABLES mat, ref, res

vars == <<mat, ref, res>>

\* ------------------------------------------------------------- bounds

\* The matrix under test is NRows x NCols or NCols x NRows.
NRows == 2
NCols == 3
\* The largest number of non-zero entries the matrix under test is grown to
\* where only set and transposed act on it.
MaxEntries == 3
\* The same where it is an operand of a multiplication or an addition.
MaxOperandEntries == 2
\* The largest number of set calls that build the second operand of add.
MaxRhsCalls == 2
\* The largest number of non-zero entries of the matrix under test where the
\* other operand is of the wrong length or shape.
MaxMismatchEntries == 1

\* Non-zero values handed to set; 0 stands for 0.0.
Vals == {-1, 1}

Shapes == {<<NRows, NCols>>, <<NCols, NRows>>}

None == 0

\* ------------------------------------------------------------ objects

Node(row, col, el, right, down) ==
  [row |-> row, col |-> col, el |-> el, right |-> right, down |-> down]

Matrix(nrows, ncols) ==
  [nrows |-> nrows, ncols |-> ncols,
   prow |-> [i \in 0 .. (nrows - 1) |-> None],
   pcol |-> [i \in 0 .. (ncols - 1) |-> None],
   heap |-> [n \in {} |-> Node(0, 0, 0, None, None)]]

Ok(M) == [m |-> M, err |-> "ok"]
Raise(M, e) == [m |-> M, err |-> e]

\* ---------------------------------------------------------- _findnode

\* Lines 27-31: along the row to the first node at or right of col; q is the
\* node before it.
RECURSIVE FindWalk(_, _, _, _)
FindWalk(M, p, q, col) ==
  IF p # None /\ M.heap[p].col < col
    THEN FindWalk(M, M.heap[p].right, p, col)
    ELSE [p |-> p, q |-> q]

\* Lines 32-34, w being where the walk ended.
FindResult(M, col, w) ==
  IF w.p = None \/ M.heap[w.p].col = col
    THEN [p |-> w.p, q |-> w.q, err |-> "ok"]
    ELSE [p |-> None, q |-> w.q, err |-> "ok"]

\* self._prow[row] raises IndexError for row = nrows (line 27).
_findnode(M, row, col) ==
  IF row \notin DOMAIN M.prow
    THEN [p |-> None, q |-> None, err |-> "IndexError"]
    ELSE FindResult(M, col, FindWalk(M, M.prow[row], None, col))

\* -------------------------------------------------------- _insertnode

\* ColWalk with the comparison of line 48 turned round.
RECURSIVE ColWalkWrongWay(_, _, _, _)
ColWalkWrongWay(M, p, m, row) ==
  IF p # None /\ M.heap[p].row > row
    THEN ColWalkWrongWay(M, M.heap[p].down, p, row)
    ELSE [p |-> p, m |-> m]

\* Lines 46-50: down the column to the first node at or below row; m is the
\* node before it.
RECURSIVE ColWalk(_, _, _, _)
ColWalk(M, p, m, row) ==
  IF p # None /\ M.heap[p].row < row
    THEN ColWalk(M, M.heap[p].down, p, row)
    ELSE [p |-> p, m |-> m]

\* Line 39 allocates the new node.  Any unused address will do: the one
\* picked is a function of the coordinates when that one is free, and past
\* every address in use otherwise.
SetMax(S) == CHOOSE x \in S : \A y \in S : y <= x

Alloc(M, row, col) ==
  IF row * (M.ncols + 1) + col + 1 \notin DOMAIN M.heap
    THEN row * (M.ncols + 1) + col + 1
    ELSE SetMax(DOMAIN M.heap \cup {(M.nrows + 1) * (M.ncols + 1)}) + 1

Put(heap, n, node) ==
  [k \in DOMAIN heap \cup {n} |-> IF k = n THEN node ELSE heap[k]]

\* Lines 39-45: the new node n is spliced into the row chain first.  It is
\* returned with the matrix.
RowSpliceAt(M, row, col, q, el, n) ==
  IF q # None
    THEN [n |-> n,
          m |-> [M EXCEPT !.heap = Put([M.heap EXCEPT ![q].right = n], n,
                                       Node(row, col, el, M.heap[q].right, None))]]
    ELSE [n |-> n,
          m |-> [M EXCEPT !.heap = Put(M.heap, n, Node(row, col, el, M.prow[row], None)),
                          !.prow[row] = n]]

RowSplice(M, row, col, q, el) == RowSpliceAt(M, row, col, q, el, Alloc(M, row, col))

\* Lines 51-61, w being where the walk down the column ended.
ColSpliceAt(M, n, row, col, w) ==
  IF w.p = None \/ M.heap[w.p].row = row
    THEN IF w.m # None
           THEN [M EXCEPT !.heap[w.m].down = n]
           ELSE [M EXCEPT !.pcol[col] = n]
    ELSE IF w.m = None
           THEN [M EXCEPT !.heap[n].down = w.p, !.pcol[col] = n]
           ELSE [M EXCEPT !.heap[n].down = w.p, !.heap[w.m].down = n]

\* Lines 46-61: then its place in the column chain is looked up and linked.
ColSplice(M, n, row, col) ==
  ColSpliceAt(M, n, row, col, ColWalk(M, M.pcol[col], None, row))

\* Lines 46-61 after the row splice s; self._pcol[col] raises IndexError for
\* col = ncols.
InsertIntoColumn(s, row, col) ==
  IF col \notin DOMAIN s.m.pcol
    THEN Raise(s.m, "IndexError")
    ELSE Ok(ColSplice(s.m, s.n, row, col))

_insertnode(M, row, col, q, el) ==
  IF q = None /\ row \notin DOMAIN M.prow
    THEN Raise(M, "IndexError")
    ELSE InsertIntoColumn(RowSplice(M, row, col, q, el), row, col)

\* -------------------------------------------------------- _removenode

\* Lines 81-85: the walk ends on the node of p's row; running off the end of
\* the chain reads None.row.
RECURSIVE DownWalk(_, _, _, _)
DownWalk(M, n, m, row) ==
  IF n = None THEN [n |-> None, m |-> m, err |-> "AttributeError"]
  ELSE IF M.heap[n].row # row THEN DownWalk(M, M.heap[n].down, n, row)
  ELSE [n |-> n, m |-> m, err |-> "ok"]

\* Lines 65-74.
RowUnlink(M, p, q) ==
  IF q # None
    THEN [M EXCEPT !.heap[q].right = M.heap[p].right]
    ELSE [M EXCEPT !.prow[M.heap[p].row] = M.heap[p].right]

\* Lines 86-89, w being where the walk down the column ended.
ColUnlinkAt(M, p, w) ==
  IF w.err # "ok" \/ w.m = None
    THEN Raise(M, "AttributeError")
    ELSE Ok([M EXCEPT !.heap[w.m].down = M.heap[p].down])

\* ColUnlink that takes p out of its column only where p is the head.
ColUnlinkHeadOnly(M, p) ==
  IF M.pcol[M.heap[p].col] = p
    THEN Ok([M EXCEPT !.pcol[M.heap[p].col] = M.heap[p].down])
    ELSE Ok(M)

\* Lines 75-89.
ColUnlink(M, p) ==
  IF M.pcol[M.heap[p].col] = p
    THEN Ok([M EXCEPT !.pcol[M.heap[p].col] = M.heap[p].down])
    ELSE ColUnlinkAt(M, p, DownWalk(M, M.pcol[M.heap[p].col], None, M.heap[p].row))

\* Lines 75-89 after the row unlink; self._pcol[p.col] raises IndexError for
\* a node whose col is ncols.
RemoveFromColumn(M, p) ==
  IF M.heap[p].col \notin DOMAIN M.pcol
    THEN Raise(M, "IndexError")
    ELSE ColUnlink(M, p)

\* p.right of no node raises AttributeError (line 66 or 71).
_removenode(M, p, q) ==
  IF p = None THEN Raise(M, "AttributeError")
  ELSE RemoveFromColumn(RowUnlink(M, p, q), p)

\* ------------------------------------------- __getitem__, __setitem__

\* Lines 95-97, f being what _findnode returned.  Returns [val, err].
GetFound(M, f) ==
  IF f.err # "ok" THEN [val |-> 0, err |-> f.err]
  ELSE IF f.p = None THEN [val |-> 0, err |-> "ok"]
  ELSE [val |-> M.heap[f.p].el, err |-> "ok"]

GetItem(M, row, col) == GetFound(M, _findnode(M, row, col))

\* Lines 103-110 without line 110: a present entry keeps its value.
SetFoundKeepsValue(M, row, col, el, f) ==
  IF f.err # "ok" THEN Raise(M, f.err)
  ELSE IF f.p = None
    THEN IF el # 0 THEN _insertnode(M, row, col, f.q, el) ELSE Ok(M)
    ELSE IF el = 0 THEN _removenode(M, f.p, f.q) ELSE Ok(M)

\* Lines 103-110, f being what _findnode returned.
SetFound(M, row, col, el, f) ==
  IF f.err # "ok" THEN Raise(M, f.err)
  ELSE IF f.p = None
    THEN IF el # 0 THEN _insertnode(M, row, col, f.q, el) ELSE Ok(M)
    ELSE IF el = 0 THEN _removenode(M, f.p, f.q)
                   ELSE Ok([M EXCEPT !.heap[f.p].el = el])

SetItem(M, row, col, el) == SetFound(M, row, col, el, _findnode(M, row, col))

\* -------------------------------------------------------------- __eq__

\* Lines 142-148: one row of the two matrices, walked in step.
RECURSIVE EqRow(_, _, _, _)
EqRow(A, B, p1, p2) ==
  IF p1 # None /\ p2 # None
    THEN IF A.heap[p1].col # B.heap[p2].col \/ A.heap[p1].el # B.heap[p2].el
           THEN FALSE
           ELSE EqRow(A, B, A.heap[p1].right, B.heap[p2].right)
    ELSE p1 = None /\ p2 = None

Eq(A, B) ==
  IF A.nrows # B.nrows \/ A.ncols # B.ncols THEN FALSE
  ELSE \A row \in 0 .. (A.nrows - 1) : EqRow(A, B, A.prow[row], B.prow[row])

\* ---------------------------------------------- scans of a head array

\* p = heads[0]; i = 0; while p is None: i += 1; p = heads[i]
\* (lines 156-160, 182-186, 205-209, 237-241, 264-268).  Nothing stops the
\* scan at the end of the array: heads[len(heads)] raises IndexError.
RECURSIVE FirstHead(_, _)
FirstHead(heads, i) ==
  IF i \notin DOMAIN heads THEN [i |-> i, err |-> "IndexError"]
  ELSE IF heads[i] = None THEN FirstHead(heads, i + 1)
  ELSE [i |-> i, err |-> "ok"]

\* while heads[i] is None and i != last: i += 1  (lines 220-221, 253-254,
\* 303-304).
\* NextHead that does not skip.
NextHeadNoSkip(heads, i, last) == i

RECURSIVE NextHead(_, _, _)
NextHead(heads, i, last) ==
  IF heads[i] = None /\ i # last THEN NextHead(heads, i + 1, last) ELSE i

\* ------------------------------------------------- __mul__, __rmul__

\* A vector is a sequence; the source indexes it from 0.
At(v, k) == v[k + 1]

\* Lines 164-166 and 171-173: the entries of one row times the vector.
RECURSIVE RowDot(_, _, _)
RowDot(M, v, q) ==
  IF q # None /\ M.heap[q].col # M.ncols
    THEN M.heap[q].el * At(v, M.heap[q].col) + RowDot(M, v, M.heap[q].right)
    ELSE 0

\* Lines 161-174: from the first non-empty row to the last row.
RECURSIVE MulRows(_, _, _, _)
MulRows(M, v, result, i) ==
  IF i # M.nrows - 1
    THEN MulRows(M, v, [result EXCEPT ![i] = @ + RowDot(M, v, M.prow[i])], i + 1)
    ELSE [result EXCEPT ![i] = @ + RowDot(M, v, M.prow[i])]

\* __mul__ with the length looked at after the scan for the first row.
MulFromChecksLate(M, v, f) ==
  IF f.err # "ok" THEN [vec |-> <<>>, err |-> f.err]
  ELSE IF M.ncols # Len(v) THEN [vec |-> <<>>, err |-> "ValueError"]
  ELSE [vec |-> MulRows(M, v, [i \in 0 .. (M.nrows - 1) |-> 0], f.i), err |-> "ok"]

\* Lines 153-175, f being the scan of lines 156-160.  Returns [vec, err].
MulFrom(M, v, f) ==
  IF M.ncols # Len(v) THEN [vec |-> <<>>, err |-> "ValueError"]
  ELSE IF f.err # "ok" THEN [vec |-> <<>>, err |-> f.err]
  ELSE [vec |-> MulRows(M, v, [i \in 0 .. (M.nrows - 1) |-> 0], f.i), err |-> "ok"]

Mul(M, v) == MulFrom(M, v, FirstHead(M.prow, 0))

\* Lines 190-192 and 197-199.
RECURSIVE ColDot(_, _, _)
ColDot(M, v, q) ==
  IF q # None /\ M.heap[q].row # M.nrows
    THEN At(v, M.heap[q].row) * M.heap[q].el + ColDot(M, v, M.heap[q].down)
    ELSE 0

\* Lines 187-200.
RECURSIVE MulCols(_, _, _, _)
MulCols(M, v, result, i) ==
  IF i # M.ncols - 1
    THEN MulCols(M, v, [result EXCEPT ![i] = @ + ColDot(M, v, M.pcol[i])], i + 1)
    ELSE [result EXCEPT ![i] = @ + ColDot(M, v, M.pcol[i])]

\* Lines 179-201, f being the scan of lines 182-186.
RMulFrom(M, v, f) ==
  IF M.nrows # Len(v) THEN [vec |-> <<>>, err |-> "ValueError"]
  ELSE IF f.err # "ok" THEN [vec |-> <<>>, err |-> f.err]
  ELSE [vec |-> MulCols(M, v, [i \in 0 .. (M.ncols - 1) |-> 0], f.i), err |-> "ok"]

RMul(M, v) == RMulFrom(M, v, FirstHead(M.pcol, 0))

\* --------------------------------------------------------- transposed

\* The state of a loop over rows or columns: the result so far, the index,
\* the head at that index, and how it went.
Loop(R, i, p, e) == [m |-> R, i |-> i, p |-> p, err |-> e]

RECURSIVE TransposeRest(_, _, _, _, _)

\* Lines 217-218, ins being what the insert of line 216 returned.
TransposeRestOn(M, R, i, q, m, ins) ==
  IF ins.err # "ok" THEN Raise(R, ins.err)
  ELSE IF m = None THEN Raise(R, "AttributeError")
  ELSE TransposeRest(M, ins.m, i, M.heap[q].down, ins.m.heap[m].right)

\* Lines 215-218: the rest of column i of M goes behind m in row i of R.
TransposeRest(M, R, i, q, m) ==
  IF q = None \/ M.heap[q].row = M.nrows THEN Ok(R)
  ELSE TransposeRestOn(M, R, i, q, m,
                       _insertnode(R, i, M.heap[q].row, m, M.heap[q].el))

RECURSIVE TransposeCols(_, _, _, _)

\* Lines 219-223, rest being how lines 213-218 went and j the next index.
TransposeColsOn(M, i, p, rest, j) ==
  IF rest.err # "ok" THEN Loop(rest.m, i, p, rest.err)
  ELSE TransposeCols(M, rest.m, j, M.pcol[j])

\* Lines 213-223, ins being what the insert of line 212 returned.
TransposeColsHead(M, R, i, p, ins) ==
  IF ins.err # "ok" THEN Loop(R, i, p, ins.err)
  ELSE TransposeColsOn(M, i, p,
                       TransposeRest(M, ins.m, i, M.heap[p].down, ins.m.prow[i]),
                       NextHead(M.pcol, i + 1, M.ncols - 1))

\* Lines 211-223: the columns before the last one.  At the top of the loop m
\* is result._prow[i] (lines 210 and 223).
TransposeCols(M, R, i, p) ==
  IF i = M.ncols - 1 THEN Loop(R, i, p, "ok")
  ELSE IF p = None THEN Loop(R, i, p, "AttributeError")
  ELSE TransposeColsHead(M, R, i, p,
                         _insertnode(R, i, M.heap[p].row, R.prow[i], M.heap[p].el))

RECURSIVE TransposeLast(_, _, _, _, _)

\* Lines 226-230, ins being what the insert of line 225 returned.
TransposeLastOn(M, R, i, p, m, ins) ==
  IF ins.err # "ok" THEN Raise(R, ins.err)
  ELSE TransposeLast(M, ins.m, i, M.heap[p].down,
                     IF m = None THEN ins.m.prow[i] ELSE ins.m.heap[m].right)

\* Lines 224-230: the last column.
TransposeLast(M, R, i, p, m) ==
  IF p = None \/ M.heap[p].row = M.nrows THEN Ok(R)
  ELSE TransposeLastOn(M, R, i, p, m,
                       _insertnode(R, i, M.heap[p].row, m, M.heap[p].el))

\* Lines 224-231, c being how the loop of lines 211-223 ended.
TransposeEnd(M, c) ==
  IF c.err # "ok" THEN Raise(c.m, c.err)
  ELSE TransposeLast(M, c.m, c.i, c.p, c.m.prow[c.i])

\* Lines 210-231, f being the scan of lines 205-209.
TransposeFrom(M, f) ==
  IF f.err # "ok" THEN Raise(Matrix(M.ncols, M.nrows), f.err)
  ELSE TransposeEnd(M, TransposeCols(M, Matrix(M.ncols, M.nrows), f.i, M.pcol[f.i]))

transposed(M) == TransposeFrom(M, FirstHead(M.pcol, 0))

\* ------------------------------------------------------------ __add__

RECURSIVE CopyRest(_, _, _, _, _)

\* Lines 250-251, ins being what the insert of line 249 returned.
CopyRestOn(A, R, i, q, m, ins) ==
  IF ins.err # "ok" THEN Raise(R, ins.err)
  ELSE IF m = None THEN Raise(R, "AttributeError")
  ELSE CopyRest(A, ins.m, i, A.heap[q].right, ins.m.heap[m].right)

\* Lines 248-251: the rest of row i of A goes behind m in row i of R.
CopyRest(A, R, i, q, m) ==
  IF q = None \/ A.heap[q].col = A.ncols THEN Ok(R)
  ELSE CopyRestOn(A, R, i, q, m, _insertnode(R, i, A.heap[q].col, m, A.heap[q].el))

RECURSIVE CopyRows(_, _, _, _)

\* Lines 252-256, rest being how lines 245-251 went and j the next index.
CopyRowsOn(A, i, p, rest, j) ==
  IF rest.err # "ok" THEN Loop(rest.m, i, p, rest.err)
  ELSE CopyRows(A, rest.m, j, A.prow[j])

\* Lines 245-256, ins being what the insert of line 244 returned.
CopyRowsHead(A, R, i, p, ins) ==
  IF ins.err # "ok" THEN Loop(R, i, p, ins.err)
  ELSE CopyRowsOn(A, i, p,
                  CopyRest(A, ins.m, i, A.heap[p].right, ins.m.prow[i]),
                  NextHead(A.prow, i + 1, A.nrows - 1))

\* Lines 243-256: the rows of A before the last one.
CopyRows(A, R, i, p) ==
  IF i = A.nrows - 1 THEN Loop(R, i, p, "ok")
  ELSE IF p = None THEN Loop(R, i, p, "AttributeError")
  ELSE CopyRowsHead(A, R, i, p,
                    _insertnode(R, i, A.heap[p].col, R.prow[i], A.heap[p].el))

RECURSIVE CopyLast(_, _, _, _, _)

\* Lines 259-263, ins being what the insert of line 258 returned.
CopyLastOn(A, R, i, p, m, ins) ==
  IF ins.err # "ok" THEN Raise(R, ins.err)
  ELSE CopyLast(A, ins.m, i, A.heap[p].right,
                IF m = None THEN ins.m.prow[i] ELSE ins.m.heap[m].right)

\* Lines 257-263: the last row of A.
CopyLast(A, R, i, p, m) ==
  IF p = None \/ A.heap[p].col = A.ncols THEN Ok(R)
  ELSE CopyLastOn(A, R, i, p, m, _insertnode(R, i, A.heap[p].col, m, A.heap[p].el))

\* Lines 282 (and 296, 317, 331), f being what the _findnode before it
\* returned.
MergeRemove(R, f) == _removenode(R, f.p, f.q)

\* Lines 294-298 (and 280-284, 315-319, 329-333): the entry of rhs meets the
\* node n of the result at the same column.  A sum of zero removes the node
\* found at n's column in row i; n itself stays where the cursor is.
MergeSame(R, i, n, el) ==
  IF R.heap[n].el + el = 0
    THEN MergeRemove(R, _findnode(R, i, R.heap[n].col))
    ELSE Ok([R EXCEPT !.heap[n].el = @ + el])

\* The state of the merge of one row: the result so far, the cursor m into
\* it, and how it went.
Cursor(R, m, e) == [m |-> R, cur |-> m, err |-> e]

RECURSIVE MergeSeek(_, _, _, _, _, _)

\* Lines 291-292 and 299-300, ins being what the insert of line 290 returned.
MergeSeekInserted(R, i, m, col, el, ins) ==
  IF ins.err # "ok" THEN Cursor(R, m, ins.err)
  ELSE MergeSeek(ins.m, i, ins.m.heap[m].right, ins.m.heap[m].right, col, el)

\* Lines 299-300 after lines 294-298.
MergeSeekSame(R, i, m, n1, col, el, same) ==
  IF same.err # "ok" THEN Cursor(R, m, same.err)
  ELSE MergeSeek(same.m, i, n1, n1, col, el)

\* Lines 289-300, n1 being n after line 288.
MergeSeekAt(R, i, m, n1, col, el) ==
  IF n1 = None \/ R.heap[n1].col > col
    THEN MergeSeekInserted(R, i, m, col, el, _insertnode(R, i, col, m, el))
  ELSE IF R.heap[n1].col = col
    THEN MergeSeekSame(R, i, m, n1, col, el, MergeSame(R, i, n1, el))
  ELSE MergeSeek(R, i, n1, n1, col, el)

\* Lines 287-300 (and 322-335): the cursor m is left of the entry's column;
\* n runs right from it.
MergeSeek(R, i, m, n, col, el) ==
  IF n = None \/ ~(col > R.heap[n].col) THEN Cursor(R, m, "ok")
  ELSE MergeSeekAt(R, i, m, R.heap[n].right, col, el)

\* Lines 275 and 278: the cursor goes to the head of the row.
MergeAtHead(i, ins) == Cursor(ins.m, ins.m.prow[i], ins.err)

\* Lines 279-284: the cursor stays.
MergeAtCursor(m, same) == Cursor(same.m, m, same.err)

\* Lines 273-300 (and 308-335): one entry (col, el) of rhs is merged into
\* row i of the result at the cursor m.
MergeEntry(R, i, m, col, el) ==
  IF m = None \/ R.heap[m].col > col
    THEN MergeAtHead(i, _insertnode(R, i, col, None, el))
  ELSE IF R.heap[m].col = col
    THEN MergeAtCursor(m, MergeSame(R, i, m, el))
  ELSE MergeSeek(R, i, m, m, col, el)

RECURSIVE MergeRow(_, _, _, _, _)

\* Line 301 (and 336) after the merge of one entry.
MergeRowOn(B, R, i, q, step) ==
  IF step.err # "ok" THEN Raise(R, step.err)
  ELSE MergeRow(B, step.m, i, B.heap[q].right, step.cur)

\* Lines 272-301 and 307-336: row i of rhs, from q on.
MergeRow(B, R, i, q, m) ==
  IF q = None \/ B.heap[q].col = B.ncols THEN Ok(R)
  ELSE MergeRowOn(B, R, i, q, MergeEntry(R, i, m, B.heap[q].col, B.heap[q].el))

RECURSIVE MergeRows(_, _, _, _)

\* Lines 302-306, row being how lines 271-301 went and j the next index.
MergeRowsOn(B, i, p, row, j) ==
  IF row.err # "ok" THEN Loop(row.m, i, p, row.err)
  ELSE MergeRows(B, row.m, j, B.prow[j])

\* Lines 270-306: the rows of rhs before the last one.  At the top of the
\* loop m is result._prow[i] (lines 269 and 306).
MergeRows(B, R, i, p) ==
  IF i = B.nrows - 1 THEN Loop(R, i, p, "ok")
  ELSE MergeRowsOn(B, i, p, MergeRow(B, R, i, p, R.prow[i]),
                   NextHead(B.prow, i + 1, B.nrows - 1))

\* Lines 257-263, c being how the loop of lines 243-256 ended.
CopyEnd(A, c) ==
  IF c.err # "ok" THEN Raise(c.m, c.err)
  ELSE CopyLast(A, c.m, c.i, c.p, c.m.prow[c.i])

\* Lines 242-263, f being the scan of lines 237-241.
CopyFrom(A, f) ==
  IF f.err # "ok" THEN Raise(Matrix(A.nrows, A.ncols), f.err)
  ELSE CopyEnd(A, CopyRows(A, Matrix(A.nrows, A.ncols), f.i, A.prow[f.i]))

\* Lines 236-263: the result starts as a copy of self.
AddCopy(A) == CopyFrom(A, FirstHead(A.prow, 0))

\* Lines 307-337, r being how the loop of lines 270-306 ended.
MergeEnd(B, r) ==
  IF r.err # "ok" THEN Raise(r.m, r.err)
  ELSE MergeRow(B, r.m, r.i, r.p, r.m.prow[r.i])

\* Lines 269-337, g being the scan of lines 264-268.
MergeFrom(B, R, g) ==
  IF g.err # "ok" THEN Raise(R, g.err)
  ELSE MergeEnd(B, MergeRows(B, R, g.i, B.prow[g.i]))

\* Lines 264-337: rhs is merged into it.
AddMerge(B, R) == MergeFrom(B, R, FirstHead(B.prow, 0))

\* Lines 264-337 after the copy.
AddOnto(B, copy) == IF copy.err # "ok" THEN copy ELSE AddMerge(B, copy.m)

Add(A, B) ==
  IF A.nrows # B.nrows \/ A.ncols # B.ncols THEN Raise(Matrix(0, 0), "ValueError")
  ELSE AddOnto(B, AddCopy(A))

\* ---------------------------------------------------- object lifetime

\* A Node lives while it can be reached: when a call returns, the nodes that
\* no head array leads to any more are reclaimed.
RECURSIVE Closure(_, _)
Closure(M, S) ==
  LET T == (S \cup {M.heap[n].right : n \in S} \cup {M.heap[n].down : n \in S})
           \ {None}
  IN  IF T = S THEN S ELSE Closure(M, T)

Live(M) ==
  Closure(M, ({M.prow[i] : i \in DOMAIN M.prow} \cup
              {M.pcol[i] : i \in DOMAIN M.pcol}) \ {None})

Collect(M) == [M EXCEPT !.heap = [n \in Live(M) |-> M.heap[n]]]

\* ----------------------------------------------- reading the structure

\* The nodes visited from n by following right (or down), at most k of them.
RECURSIVE RightChain(_, _, _)
RightChain(M, n, k) ==
  IF n = None \/ k = 0 THEN <<>>
  ELSE <<n>> \o RightChain(M, M.heap[n].right, k - 1)

RECURSIVE DownChain(_, _, _)
DownChain(M, n, k) ==
  IF n = None \/ k = 0 THEN <<>>
  ELSE <<n>> \o DownChain(M, M.heap[n].down, k - 1)

RowChain(M, r) == RightChain(M, M.prow[r], Cardinality(DOMAIN M.heap) + 1)
ColChain(M, c) == DownChain(M, M.pcol[c], Cardinality(DOMAIN M.heap) + 1)

Range(s) == {s[i] : i \in DOMAIN s}

\* I1 and I2 of one matrix.
RowsOrdered(M) ==
  \A r \in DOMAIN M.prow :
    LET ch == RowChain(M, r)
    IN  /\ \A i \in DOMAIN ch : M.heap[ch[i]].row = r
        /\ \A i, j \in DOMAIN ch : i < j => M.heap[ch[i]].col < M.heap[ch[j]].col

ColsOrdered(M) ==
  \A c \in DOMAIN M.pcol :
    LET ch == ColChain(M, c)
    IN  /\ \A i \in DOMAIN ch : M.heap[ch[i]].col = c
        /\ \A i, j \in DOMAIN ch : i < j => M.heap[ch[i]].row < M.heap[ch[j]].row

RowNodes(M) == UNION {Range(RowChain(M, r)) : r \in DOMAIN M.prow}
ColNodes(M) == UNION {Range(ColChain(M, c)) : c \in DOMAIN M.pcol}

\* I4 of one matrix: the two orderings index the same nodes, each node in
\* one row chain and one column chain, once.
SameNodes(M) ==
  /\ RowNodes(M) = ColNodes(M)
  /\ \A n \in RowNodes(M) :
       /\ Cardinality({r \in DOMAIN M.prow : n \in Range(RowChain(M, r))}) = 1
       /\ Cardinality({c \in DOMAIN M.pcol : n \in Range(ColChain(M, c))}) = 1
  /\ \A r \in DOMAIN M.prow :
       Cardinality(Range(RowChain(M, r))) = Len(RowChain(M, r))
  /\ \A c \in DOMAIN M.pcol :
       Cardinality(Range(ColChain(M, c))) = Len(ColChain(M, c))

\* The dense array a matrix stands for, read with get.
Dense(M) ==
  [r \in DOMAIN M.prow |-> [c \in DOMAIN M.pcol |-> GetItem(M, r, c).val]]

\* M holds exactly the non-zero values of the dense array d, in both
\* orderings: a node at (r, c) in row chain r and in column chain c exactly
\* when d[r][c] is not zero, and then with that value.
Holds(M, d) ==
  /\ \A n \in RowNodes(M) \cup ColNodes(M) : M.heap[n].el # 0
  /\ \A r \in DOMAIN M.prow : \A c \in DOMAIN M.pcol :
       LET inrow == {n \in Range(RowChain(M, r)) : M.heap[n].col = c}
           incol == {n \in Range(ColChain(M, c)) : M.heap[n].row = r}
       IN  IF d[r][c] = 0
             THEN inrow = {} /\ incol = {}
             ELSE /\ inrow = incol
                  /\ Cardinality(inrow) = 1
                  /\ \A n \in inrow : M.heap[n].el = d[r][c]

\* -------------------------------------------------------- the machine

\* mat is the matrix under test, ref the dense array of the values last set
\* at each coordinate, res what the last call returned, until the caller
\* lets go of it.
NoRes == [op |-> "none", err |-> "ok"]

\* Which of the four cases of __setitem__ (lines 103-110) a call takes, f
\* being what _findnode returned.
CaseFound(el, f) ==
  IF f.err # "ok" THEN "raise"
  ELSE IF f.p = None THEN (IF el # 0 THEN "insert" ELSE "noop")
  ELSE (IF el = 0 THEN "remove" ELSE "overwrite")

SetCase(M, row, col, el) == CaseFound(el, _findnode(M, row, col))

Init ==
  /\ \E shape \in Shapes : mat = Matrix(shape[1], shape[2])
  /\ ref = [r \in DOMAIN mat.prow |-> [c \in DOMAIN mat.pcol |-> 0]]
  /\ res = NoRes

\* m[row, col] = el has taken the case, ended with err and left the matrix
\* after.  res keeps the case, whether the matrix is another one now, and the
\* arguments of a call with a coordinate out of range.
SetDone(row, col, el, cap, case, err, after) ==
  /\ res = NoRes
  /\ case = "insert" => Cardinality(DOMAIN mat.heap) < cap
  /\ mat' = after
  /\ ref' = IF row \in DOMAIN ref /\ col \in DOMAIN ref[row]
              THEN [ref EXCEPT ![row][col] = el] ELSE ref
  /\ res' = [op |-> "set", err |-> err, case |-> case,
             changed |-> after # mat,
             outside |-> IF row \in DOMAIN mat.prow /\ col \in DOMAIN mat.pcol
                           THEN <<>> ELSE <<row, col, el>>]

SetReturned(row, col, el, cap, case, s) ==
  SetDone(row, col, el, cap, case, s.err, Collect(s.m))

\* m[row, col] = el, the matrix growing to at most cap entries.
Set(row, col, el, cap) ==
  SetReturned(row, col, el, cap, SetCase(mat, row, col, el), SetItem(mat, row, col, el))

\* set with coordinates in range.
SetNext ==
  \E row \in DOMAIN mat.prow, col \in DOMAIN mat.pcol, el \in Vals \cup {0} :
    Set(row, col, el, MaxEntries)

TransposeReturned(t) ==
  /\ res = NoRes
  /\ res' = [op |-> "transposed", err |-> t.err,
             mat |-> IF t.err = "ok" THEN Collect(t.m) ELSE Matrix(0, 0)]
  /\ UNCHANGED <<mat, ref>>

\* t = m.transposed()
Transpose == TransposeReturned(transposed(mat))

RoundTripReturned(err, tt) ==
  /\ res = NoRes
  /\ res' = IF err # "ok" THEN [op |-> "roundtrip", err |-> err, eq |-> FALSE]
            ELSE IF tt.err # "ok" THEN [op |-> "roundtrip", err |-> tt.err, eq |-> FALSE]
            ELSE [op |-> "roundtrip", err |-> "ok", eq |-> Eq(tt.m, mat)]
  /\ UNCHANGED <<mat, ref>>

RoundTripOn(t) == RoundTripReturned(t.err, transposed(t.m))

\* m.transposed().transposed() == m
RoundTrip == RoundTripOn(transposed(mat))

\* The caller lets go of what the last call returned.
Discard ==
  /\ res # NoRes
  /\ res' = NoRes
  /\ UNCHANGED <<mat, ref>>

Next == SetNext \/ Transpose \/ RoundTrip \/ Discard

Spec == Init /\ [][Next]_vars

\* ------------------------------------------- set, coordinates out of range

\* set with row up to nrows and col up to ncols, one past the last index.
SetAnyNext ==
  \E row \in 0 .. mat.nrows, col \in 0 .. mat.ncols, el \in Vals \cup {0} :
    Set(row, col, el, MaxEntries)

NextAny == SetAnyNext \/ Discard

SpecAny == Init /\ [][NextAny]_vars

\* ------------------------------------------------- operands and vectors

\* The set calls a matrix of a shape takes, and the sequences of at most k
\* of them.
Calls(shape) ==
  {<<row, col, el>> : row \in 0 .. (shape[1] - 1), col \in 0 .. (shape[2] - 1),
                      el \in Vals}

RECURSIVE SeqsUpTo(_, _)
SeqsUpTo(S, k) ==
  IF k = 0 THEN {<<>>}
  ELSE LET P == SeqsUpTo(S, k - 1)
       IN  P \cup {Append(cs, x) : cs \in P, x \in S}

\* The matrix a freshly constructed one becomes under a sequence of set calls.
RECURSIVE Built(_, _)
Built(M, cs) ==
  IF cs = <<>> THEN M
  ELSE Built(Collect(SetItem(M, cs[1][1], cs[1][2], cs[1][3]).m), Tail(cs))

Operands(shape, k) ==
  {Built(Matrix(shape[1], shape[2]), cs) : cs \in SeqsUpTo(Calls(shape), k)}

\* The vectors handed to a multiplication with a matrix side of n: every
\* vector of zeros and ones of length n, and the vectors of ones that are one
\* shorter and one longer.
Ones(k) == [i \in 1 .. k |-> 1]
Vectors(n) == [1 .. n -> {0, 1}] \cup {Ones(n - 1), Ones(n + 1)}

\* set on a matrix that is going to be an operand.
OperandNext ==
  \E row \in DOMAIN mat.prow, col \in DOMAIN mat.pcol, el \in Vals \cup {0} :
    Set(row, col, el, MaxOperandEntries)

MulReturned(op, v, r) ==
  /\ res = NoRes
  /\ res' = [op |-> op, err |-> r.err, v |-> v, vec |-> r.vec]
  /\ UNCHANGED <<mat, ref>>

\* m * v
MulRight(v) == MulReturned("mul", v, Mul(mat, v))

\* v * m
MulLeft(v) == MulReturned("rmul", v, RMul(mat, v))

AddReturned(b, r) ==
  /\ res = NoRes
  /\ res' = [op |-> "add", err |-> r.err, b |-> b,
             mat |-> IF r.err = "ok" THEN Collect(r.m) ELSE Matrix(0, 0)]
  /\ UNCHANGED <<mat, ref>>

\* m + b
AddTo(b) == AddReturned(b, Add(mat, b))

MulRightNext == \E v \in Vectors(mat.ncols) : MulRight(v)
MulLeftNext == \E v \in Vectors(mat.nrows) : MulLeft(v)

NextMul == OperandNext \/ MulRightNext \/ MulLeftNext \/ Discard

SpecMul == Init /\ [][NextMul]_vars

\* ------------------------------------- operands of other lengths and shapes

\* set on a matrix that is going to meet a vector or a matrix of any size.
ShapeOperandNext ==
  \E row \in DOMAIN mat.prow, col \in DOMAIN mat.pcol, el \in Vals \cup {0} :
    Set(row, col, el, MaxMismatchEntries)

\* The second operands of a shape: the freshly constructed matrix and the
\* matrices with one entry, at (0, 0).
Corners(shape) ==
  {Built(Matrix(shape[1], shape[2]), cs) :
     cs \in {<<>>} \cup {<< <<0, 0, el>> >> : el \in Vals}}

\* add with a second operand of any shape made of the two sides.
AddShapeNext ==
  \E shape \in {mat.nrows, mat.ncols} \X {mat.nrows, mat.ncols} :
    \E b \in Corners(shape) : AddTo(b)

NextShape ==
  ShapeOperandNext \/ MulRightNext \/ MulLeftNext \/ AddShapeNext \/ Discard

SpecShape == Init /\ [][NextShape]_vars

\* add with a second operand of the same shape.
AddNext == \E b \in Operands(<<mat.nrows, mat.ncols>>, MaxRhsCalls) : AddTo(b)

NextAdd == OperandNext \/ AddNext \/ Discard

SpecAdd == Init /\ [][NextAdd]_vars

\* --------------------------------------------------------------- claims

IsEmpty(M) == DOMAIN M.heap = {}

\* C1: after any sequence of set calls with coordinates in range, get(r, c)
\* is the value of the dense reference array at every coordinate: the value
\* last set there, 0.0 where that was zero or nothing was set, whatever was
\* set elsewhere since.
GetMatchesReference ==
  /\ res.op = "set" => res.err = "ok"
  /\ Dense(mat) = ref

\* An entry has just been overwritten in a matrix that holds others.
OverwriteAmongOthers ==
  /\ res.op = "set" /\ res.case = "overwrite"
  /\ Cardinality(DOMAIN mat.heap) >= 3

\* C2: after any sequence of set calls with coordinates in range, every row
\* chain visits nodes of its row only, in strictly increasing col, and every
\* column chain nodes of its column only, in strictly increasing row.
ChainsOrdered == RowsOrdered(mat) /\ ColsOrdered(mat)

\* An insert has just made a column chain of three nodes.
InsertIntoLongColumn ==
  /\ res.op = "set" /\ res.case = "insert"
  /\ \E c \in DOMAIN mat.pcol : Len(ColChain(mat, c)) = 3

\* C3: after any sequence of set calls with coordinates in range, the row
\* heads and the column heads lead to the same nodes, each node in one row
\* chain and one column chain, no node holds zero, and a node is at (r, c)
\* exactly when the value there is not zero: after set(r, c, 0.0) neither
\* chain has a node for (r, c).
BothOrderingsHoldTheEntries == SameNodes(mat) /\ Holds(mat, ref)

\* An entry below the head of its column has just been set to zero, others
\* of its row and of its column staying.
RemoveBelowHead ==
  /\ res.op = "set" /\ res.case = "remove"
  /\ \E r \in DOMAIN mat.prow : \E c \in DOMAIN mat.pcol :
       /\ ref[r][c] = 0
       /\ \E r2 \in DOMAIN mat.prow : r2 < r /\ ref[r2][c] # 0
       /\ \E c2 \in DOMAIN mat.pcol : c2 # c /\ ref[r][c2] # 0
       /\ Cardinality(DOMAIN mat.heap) = 2

\* C4: for two matrices of the same dimensions that each hold an entry, add
\* returns a matrix whose get is the sum of the two gets at every coordinate,
\* with no node where the sum is zero.
AddIsPointwiseSum ==
  (res.op = "add" /\ ~IsEmpty(mat) /\ ~IsEmpty(res.b)) =>
    /\ res.err = "ok"
    /\ \A r \in DOMAIN mat.prow : \A c \in DOMAIN mat.pcol :
         LET sum == GetItem(mat, r, c).val + GetItem(res.b, r, c).val
         IN  /\ GetItem(res.mat, r, c).val = sum
             /\ sum = 0 =>
                  \A n \in RowNodes(res.mat) \cup ColNodes(res.mat) :
                    ~(res.mat.heap[n].row = r /\ res.mat.heap[n].col = c)

\* The sum over c of d[r][c] * v[c].
RECURSIVE DotRow(_, _, _)
DotRow(row, v, c) == IF c < 0 THEN 0 ELSE row[c] * At(v, c) + DotRow(row, v, c - 1)

\* C5: for every matrix and every vector of length ncols, multiplyRight
\* returns, for every row, the sum over c of get(r, c) * v[c]; an empty row
\* gives 0, and so does every row of a matrix without entries.
MulRightIsRowSums ==
  (res.op = "mul" /\ Len(res.v) = mat.ncols) =>
    /\ res.err = "ok"
    /\ DOMAIN res.vec = DOMAIN mat.prow
    /\ \A r \in DOMAIN mat.prow :
         res.vec[r] = DotRow(Dense(mat)[r], res.v, mat.ncols - 1)

\* C6: for every matrix, one without entries included, transposing twice
\* returns a matrix and equals finds it equal to the matrix.
RoundTripEqualsSource ==
  res.op = "roundtrip" => (res.err = "ok" /\ res.eq)

\* C7: add of a matrix and the freshly constructed matrix of its dimensions
\* returns a matrix that equals the first.
AddZeroIsIdentity ==
  (res.op = "add" /\ res.b = Matrix(mat.nrows, mat.ncols)) =>
    (res.err = "ok" /\ Eq(res.mat, mat))

\* C8: for a matrix with at least one entry, transposed returns a matrix of
\* ncols rows and nrows columns whose get at (c, r) is the source's get at
\* (r, c) for every coordinate, empty source columns adding nothing, with row
\* chains strictly increasing in col and column chains strictly increasing
\* in row.
TransposedIsTranspose ==
  (res.op = "transposed" /\ ~IsEmpty(mat)) =>
    /\ res.err = "ok"
    /\ res.mat.nrows = mat.ncols /\ res.mat.ncols = mat.nrows
    /\ DOMAIN res.mat.prow = DOMAIN mat.pcol
    /\ DOMAIN res.mat.pcol = DOMAIN mat.prow
    /\ \A r \in DOMAIN mat.prow : \A c \in DOMAIN mat.pcol :
         GetItem(res.mat, c, r) = GetItem(mat, r, c)
    /\ RowsOrdered(res.mat) /\ ColsOrdered(res.mat)

\* A matrix with an empty column between two columns that hold entries has
\* been transposed.
TransposedAcrossEmptyColumn ==
  /\ res.op = "transposed" /\ res.err = "ok"
  /\ \E c1, c2, c3 \in DOMAIN mat.pcol :
       /\ c1 < c2 /\ c2 < c3
       /\ mat.pcol[c1] # None /\ mat.pcol[c2] = None /\ mat.pcol[c3] # None

\* C9: a right multiplication by a vector whose length is not ncols, a left
\* multiplication by one whose length is not nrows, and an add of a matrix of
\* other dimensions each end in ValueError and nothing else, whatever the
\* operands hold, and return no result.
DimensionMismatchRaises ==
  /\ (res.op = "mul" /\ Len(res.v) # mat.ncols) =>
       (res.err = "ValueError" /\ res.vec = <<>>)
  /\ (res.op = "rmul" /\ Len(res.v) # mat.nrows) =>
       (res.err = "ValueError" /\ res.vec = <<>>)
  /\ (res.op = "add" /\ (res.b.nrows # mat.nrows \/ res.b.ncols # mat.ncols)) =>
       (res.err = "ValueError" /\ res.mat = Matrix(0, 0))
  /\ res.op \in {"mul", "rmul", "add"} => Holds(mat, ref)

\* A matrix without entries has been multiplied by a vector that is too long.
MismatchOnEmptyMatrix ==
  /\ res.op = "mul" /\ Len(res.v) = mat.ncols + 1
  /\ IsEmpty(mat)

\* C10: a set of a non-zero value with col = ncols, or with row = nrows, that
\* ends in IndexError leaves the matrix as it was: the chains are ordered,
\* the two orderings lead to the same nodes, and no row chain has a node
\* whose col is outside 0 .. ncols - 1.
FailedSetLeavesMatrix ==
  (res.op = "set" /\ res.err = "IndexError" /\ res.outside # <<>> /\ res.outside[3] # 0) =>
    /\ ~res.changed
    /\ RowsOrdered(mat) /\ ColsOrdered(mat) /\ SameNodes(mat)
    /\ \A n \in RowNodes(mat) : mat.heap[n].col \in DOMAIN mat.pcol

====
